---- MODULE Spec2Model ----
(***************************************************************************)
(* Model of the backtesting core of shared-trading-lab:                    *)
(*   - backtest/engine.py   BacktestEngine (execution simulator)           *)
(*   - strategies/strategy_1.py, strategy_2.py, strategy_3.py              *)
(*   - backtest/data_loader.py  DataLoader (download, validation)          *)
(*   - app.py  _run_portfolio_backtest_cached (multi-asset combination)    *)
(*                                                                         *)
(* Numbers.  The code computes in IEEE doubles (pandas / numpy).  Finite   *)
(* values are modelled exactly, as normalised fractions <<n, d>> with      *)
(* d > 0; the three special values pandas produces are kept:               *)
(*   NaN = <<0, 0>>,  +inf = <<1, 0>>,  -inf = <<-1, 0>>.                     *)
(* Rounding error of the doubles is not modelled; the sign of a zero is    *)
(* not modelled either (a division by zero yields the sign of the          *)
(* numerator).                                                             *)
(***************************************************************************)
EXTENDS Integers, Sequences, FiniteSets, TLC

\* ------------------------------------------------------------------ bounds

\* Longest data frame handed to BacktestEngine._execute_backtest.
MaxBars == 4

\* Longest bar sequence handed to a strategy's generate_signals.
MaxLen == 4

\* Longest data frame handed to an engine that is called twice.
RerunBars == 2

\* Number of trading days of the period a portfolio backtest covers.
MaxDates == 3

\* Most worker threads of the window alive at a time.
MaxThreads == 2

\* Close prices of the bars (positive, as validated bars are).
Prices == {1, 2}

\* Values of the Signal column.
Signals == {-1, 0, 1}

\* Close prices of the bars given to the moving-average strategies.
Closes == {1, 2, 3, 4}

\* Close prices and volumes of the bars given to the MACD + volume strategy.
MacdCloses == {1, 2, 3}

Volumes == {1, 4}

\* initial_capital of the engines built.
Capitals == {100}

\* ------------------------------------------------------- float arithmetic

Abs(n) == IF n < 0 THEN -n ELSE n

Sgn(n) == IF n < 0 THEN -1 ELSE IF n > 0 THEN 1 ELSE 0

RECURSIVE GCD(_, _)
GCD(a, b) == IF b = 0 THEN a ELSE GCD(b, a % b)

\* The fraction n/d in lowest terms with a positive denominator; d = 0 gives
\* NaN (n = 0) or a signed infinity.
Norm(n, d) ==
    IF d = 0 THEN <<Sgn(n), 0>>
    ELSE LET g == GCD(Abs(n), Abs(d))
             s == IF d < 0 THEN -1 ELSE 1
         IN  <<(s * n) \div g, (s * d) \div g>>

R(n) == <<n, 1>>

Zero == R(0)

NaN == <<0, 0>>

IsNaN(x) == x = NaN

IsInf(x) == x[2] = 0 /\ x[1] # 0

IsFinite(x) == x[2] # 0

RNeg(x) == <<-x[1], x[2]>>

RAdd(x, y) ==
    IF IsNaN(x) \/ IsNaN(y) THEN NaN
    ELSE IF IsInf(x) /\ IsInf(y) THEN (IF x = y THEN x ELSE NaN)
    ELSE IF IsInf(x) THEN x
    ELSE IF IsInf(y) THEN y
    ELSE LET g == GCD(x[2], y[2])
         IN  Norm(x[1] * (y[2] \div g) + y[1] * (x[2] \div g),
                  (x[2] \div g) * y[2])

RSub(x, y) == RAdd(x, RNeg(y))

RMul(x, y) ==
    IF IsNaN(x) \/ IsNaN(y) THEN NaN
    ELSE IF IsInf(x) \/ IsInf(y) THEN <<Sgn(x[1]) * Sgn(y[1]), 0>>
    ELSE LET g1 == GCD(Abs(x[1]), y[2])
             g2 == GCD(Abs(y[1]), x[2])
         IN  Norm((x[1] \div g1) * (y[1] \div g2),
                  (x[2] \div g2) * (y[2] \div g1))

RDiv(x, y) ==
    IF IsNaN(x) \/ IsNaN(y) THEN NaN
    ELSE IF IsInf(y) THEN (IF IsInf(x) THEN NaN ELSE Zero)
    ELSE IF y[1] = 0 THEN <<Sgn(x[1]), 0>>
    ELSE IF IsInf(x) THEN <<Sgn(x[1]) * Sgn(y[1]), 0>>
    ELSE RMul(x, Norm(y[2], y[1]))

\* Comparisons of doubles: every comparison with NaN is false.
RLt(x, y) ==
    /\ ~IsNaN(x)
    /\ ~IsNaN(y)
    /\ IF IsInf(x) \/ IsInf(y)
       THEN (IF IsInf(x) THEN x[1] ELSE 0) < (IF IsInf(y) THEN y[1] ELSE 0)
       ELSE x[1] * y[2] < y[1] * x[2]

RGt(x, y) == RLt(y, x)

REq(x, y) == ~IsNaN(x) /\ ~IsNaN(y) /\ x = y

RLe(x, y) == RLt(x, y) \/ REq(x, y)

RGe(x, y) == RLe(y, x)

\* ------------------------------------------------------------------ state

VARIABLES
    pc,               \* "idle": engine built; "data": strategy.set_data done;
                      \* "signals": generate_signals returned;
                      \* "loop": in _execute_backtest's loop; "done"
    initial_capital,  \* BacktestEngine.initial_capital
    commission,       \* BacktestEngine.commission
    trades,           \* BacktestEngine.trades; <<>> stands for None
    cash,             \* _execute_backtest: local cash
    shares,           \* _execute_backtest: local shares
    positions,        \* _execute_backtest: local positions
    portfolio,        \* _execute_backtest: the rows of portfolio written so far
    df,               \* a strategy's data: the bars, rows [Close, Volume]
    strategy,         \* the strategy instance: its class and parameters
    signals,          \* the Signal column generate_signals returned; <<>> before
    returned,         \* the frames the finished calls of _execute_backtest
                      \* returned, oldest first
    metrics,          \* the dict _calculate_metrics returned; <<>> before
    data,             \* run(): the frame load_stock_data returned; <<>> before
    symbols,          \* _run_portfolio_backtest_cached: its argument symbols
    per_symbol_runs,  \* _run_portfolio_backtest_cached: local per_symbol_runs
    result,           \* the dict _run_portfolio_backtest_cached returned;
                      \* <<>> before, and when it raised
    run_button,       \* TradingLabGUI: state of run_button
    save_button,      \* TradingLabGUI: state of save_button
    status_var,       \* TradingLabGUI: the status bar
    symbol_var,       \* TradingLabGUI: the entries of the form
    start_date_var,
    end_date_var,
    capital_var,
    results,          \* TradingLabGUI.results; <<>> is None
    threads,          \* the worker threads alive, each at its position
    after_queue       \* callbacks scheduled with root.after(0, ...), oldest
                      \* first

vars == <<pc, initial_capital, commission, trades, cash, shares, positions,
          portfolio, df, strategy, signals, returned, metrics, data, symbols,
          per_symbol_runs, result, run_button, save_button, status_var,
          symbol_var, start_date_var, end_date_var, capital_var, results,
          threads, after_queue>>

engineVars == <<pc, initial_capital, commission, trades, cash, shares,
                positions, portfolio, returned, metrics>>

strategyVars == <<df, strategy, signals>>

loaderVars == <<data>>

appVars == <<symbols, per_symbol_runs, result>>

\* No frame was loaded.
LoaderIdle == data = <<>>

\* No portfolio backtest was asked for.
AppIdle ==
    /\ symbols = <<>>
    /\ per_symbol_runs = <<>>
    /\ result = <<>>

guiVars == <<run_button, save_button, status_var, symbol_var, start_date_var,
            end_date_var, capital_var, results, threads, after_queue>>

\* gui.py:19-29, 31-181  the window after __init__: the run button enabled,
\* the save button disabled, the default entries, no worker.
GuiIdle ==
    /\ run_button = "normal"
    /\ save_button = "disabled"
    /\ status_var = "ready"
    /\ symbol_var = "AAPL"
    /\ start_date_var = "2021-01-01"
    /\ end_date_var = "2021-12-31"
    /\ capital_var = "10000"
    /\ results = <<>>
    /\ threads = <<>>
    /\ after_queue = <<>>

\* Commission rates the engines are built with (the constructor accepts any
\* number): 0, 1/10, 1/4 and the out-of-range rate 1.
Commissions == {<<0, 1>>, <<1, 10>>, <<1, 4>>, <<1, 1>>}

\* -------------------------------------------------- BacktestEngine: steps

\* Mutant: a buy signal is executed whatever the position.
BuyConditionAnyState(signal, shares_) == signal = 1

\* engine.py:133  signal == 1 and shares == 0
BuyCondition(signal, shares_) == signal = 1 /\ REq(shares_, Zero)

\* Mutant: a sell signal is executed whatever the position.
SellConditionAnyState(signal, shares_) == signal = -1

\* engine.py:145  signal == -1 and shares > 0
SellCondition(signal, shares_) == signal = -1 /\ RGt(shares_, Zero)

\* Mutant: the buy side charges no commission.
BuySharesNoCommission(cash_, current_price) == RDiv(cash_, current_price)

\* Mutant: the buy side adds the commission to the price paid.
BuySharesMarkup(cash_, current_price) ==
    RDiv(cash_, RMul(current_price, RAdd(R(1), commission)))

\* engine.py:135-136  cost = cash * (1 - commission); shares = cost / price
BuyShares(cash_, current_price) ==
    RDiv(RMul(cash_, RSub(R(1), commission)), current_price)

\* Mutant: the sell side charges no commission.
SellCashNoCommission(shares_, current_price) == RMul(shares_, current_price)

\* engine.py:146  cash = shares * current_price * (1 - commission)
SellCash(shares_, current_price) ==
    RMul(RMul(shares_, current_price), RSub(R(1), commission))

\* Mutant: the position is not valued at the bar's close.
PortfolioValueNoPrice(cash_, shares_, current_price) == RAdd(cash_, shares_)

\* engine.py:156  portfolio_value = cash + shares * current_price
PortfolioValue(cash_, shares_, current_price) ==
    RAdd(cash_, RMul(shares_, current_price))

\* Mutant: a SELL is recorded after shares was reset to 0.
TradeAfterReset(date, type, current_price, shares_) ==
    [Date |-> date, Type |-> type, Price |-> current_price,
     Shares |-> IF type = "SELL" THEN Zero ELSE shares_]

\* engine.py:138-143, 147-152  one entry of positions
Trade(date, type, current_price, shares_) ==
    [Date |-> date, Type |-> type, Price |-> current_price, Shares |-> shares_]

\* engine.py:162-164  the Returns cell of row i (0.0 at i = 0)
DailyReturn(i, portfolio_value) ==
    IF i > 0
    THEN LET prev_value == portfolio[i].Portfolio_Value
         IN  RDiv(RSub(portfolio_value, prev_value), prev_value)
    ELSE Zero

\* BacktestEngine.__init__
EngineInit ==
    /\ pc = "idle"
    /\ initial_capital \in {R(c) : c \in Capitals}
    /\ commission \in Commissions
    /\ trades = <<>>
    /\ cash = Zero
    /\ shares = Zero
    /\ positions = <<>>
    /\ portfolio = <<>>
    /\ returned = <<>>
    /\ metrics = <<>>

\* Mutant: the position is kept on the engine and survives into the next
\* call.
ExecuteBacktestSetupKeepsShares ==
    /\ pc' = "loop"
    /\ cash' = initial_capital
    /\ positions' = <<>>
    /\ portfolio' = <<>>
    /\ UNCHANGED <<initial_capital, commission, trades, shares, returned,
                   metrics>>

\* engine.py:113-126  cash = initial_capital, shares = 0, positions = [], an
\* empty history: the locals of a call of _execute_backtest.
ExecuteBacktestSetup ==
    /\ pc' = "loop"
    /\ cash' = initial_capital
    /\ shares' = Zero
    /\ positions' = <<>>
    /\ portfolio' = <<>>
    /\ UNCHANGED <<initial_capital, commission, trades, returned, metrics>>

\* _execute_backtest is called, on a new engine or by run().
ExecuteBacktestBegin ==
    /\ pc \in {"idle", "signals"}
    /\ ExecuteBacktestSetup

\* One iteration of the loop, on row i = Len(portfolio) of the data, whose
\* Close is price and whose Signal is signal.
ExecuteBar(price, signal) ==
    LET i == Len(portfolio)
        current_price == R(price)
        buy == BuyCondition(signal, shares)
        sell == ~buy /\ SellCondition(signal, shares)
        shares1 == IF buy THEN BuyShares(cash, current_price)
                   ELSE IF sell THEN Zero ELSE shares
        cash1 == IF buy THEN Zero
                 ELSE IF sell THEN SellCash(shares, current_price) ELSE cash
        positions1 ==
            IF buy THEN Append(positions, Trade(i, "BUY", current_price, shares1))
            ELSE IF sell
                 THEN Append(positions, Trade(i, "SELL", current_price, shares))
                 ELSE positions
        portfolio_value == PortfolioValue(cash1, shares1, current_price)
    IN  /\ pc = "loop"
        /\ cash' = cash1
        /\ shares' = shares1
        /\ positions' = positions1
        /\ portfolio' = Append(portfolio,
               [Date |-> i, Price |-> current_price, Signal |-> signal,
                Cash |-> cash1, Shares |-> shares1,
                Portfolio_Value |-> portfolio_value,
                Returns |-> DailyReturn(i, portfolio_value)])
        /\ UNCHANGED <<pc, initial_capital, commission, trades, returned,
                       metrics>>

\* The loop over a data frame given directly to _execute_backtest: the rows
\* are read one per iteration, so every frame of at most MaxBars rows with
\* Close in Prices and Signal in Signals is covered.
ExecuteBacktestLoop ==
    /\ Len(portfolio) < MaxBars
    /\ \E price \in Prices, signal \in Signals : ExecuteBar(price, signal)

\* engine.py:166-170  after the loop: self.trades is set only when positions
\* is not empty, and the history is returned.
ExecuteBacktestEnd ==
    /\ pc = "loop"
    /\ pc' = "done"
    /\ trades' = IF positions # <<>> THEN positions ELSE trades
    /\ returned' = Append(returned, portfolio)
    /\ UNCHANGED <<initial_capital, commission, cash, shares, positions,
                   portfolio, metrics>>

StrategyIdle ==
    /\ df = <<>>
    /\ strategy = [class |-> "none"]
    /\ signals = <<>>

EngineSpecInit ==
    EngineInit /\ StrategyIdle /\ LoaderIdle /\ AppIdle /\ GuiIdle

EngineNext ==
    \/ ExecuteBacktestBegin /\ UNCHANGED strategyVars
    \/ ExecuteBacktestLoop /\ UNCHANGED strategyVars
    \/ ExecuteBacktestEnd /\ UNCHANGED strategyVars

\* BacktestEngine._execute_backtest on arbitrary data frames.
SpecEngine ==
    EngineSpecInit /\ [][EngineNext /\ UNCHANGED <<loaderVars, appVars, guiVars>>]_vars

\* Commission rates of the engines that are called twice.
RerunCommissions == {<<0, 1>>, <<1, 10>>}

RerunInit == EngineSpecInit /\ commission \in RerunCommissions

\* The loop over a data frame of at most RerunBars rows.
RerunLoop ==
    /\ Len(portfolio) < RerunBars
    /\ \E price \in Prices, signal \in Signals : ExecuteBar(price, signal)

\* _execute_backtest is called a second time on the same engine, after the
\* first call returned.
ExecuteBacktestAgain ==
    /\ pc = "done"
    /\ Len(returned) = 1
    /\ ExecuteBacktestSetup

RerunNext ==
    \/ ExecuteBacktestBegin /\ UNCHANGED strategyVars
    \/ RerunLoop /\ UNCHANGED strategyVars
    \/ ExecuteBacktestEnd /\ UNCHANGED strategyVars
    \/ ExecuteBacktestAgain /\ UNCHANGED strategyVars

\* Two calls of BacktestEngine._execute_backtest on one engine, each on an
\* arbitrary data frame.
SpecRerun ==
    RerunInit
    /\ [][RerunNext /\ UNCHANGED <<loaderVars, appVars, guiVars>>]_vars

\* ------------------------------------------------------------ indicators

\* A missing value of a frame (None / NaN in a cell).  Closes are positive,
\* so 0 stands for it in the bars.
Null == 0

\* The double a cell of a price column holds: NaN when the value is missing.
Cell(v) == IF v = Null THEN NaN ELSE R(v)

\* The Close and Volume columns of the strategy's data, as doubles.
Close == [k \in 1..Len(df) |-> Cell(df[k].Close)]

Volume == [k \in 1..Len(df) |-> R(df[k].Volume)]

RECURSIVE SumRange(_, _, _)
SumRange(s, lo, hi) ==
    IF lo > hi THEN Zero ELSE RAdd(s[lo], SumRange(s, lo + 1, hi))

\* series.rolling(window).mean() at position k (1-based): NaN until the
\* window is full, and NaN when the window holds a NaN.
RollingMean(s, window, k) ==
    IF k < window THEN NaN
    ELSE RDiv(SumRange(s, k - window + 1, k), R(window))

\* prices.diff(): NaN at the first position.
Diff(s, k) == IF k = 1 THEN NaN ELSE RSub(s[k], s[k - 1])

\* strategy_2.py:35  delta.where(delta > 0, 0): 0 wherever the test is false,
\* that of a NaN included.
Gain(s) ==
    [k \in DOMAIN s |-> IF RGt(Diff(s, k), Zero) THEN Diff(s, k) ELSE Zero]

\* strategy_2.py:36  -delta.where(delta < 0, 0)
Loss(s) ==
    [k \in DOMAIN s |->
        RNeg(IF RLt(Diff(s, k), Zero) THEN Diff(s, k) ELSE Zero)]

\* Mutant: the division is guarded by a small constant added to avg_loss.
calculate_rsi_guarded(prices, period, k) ==
    LET avg_gain == RollingMean(Gain(prices), period, k)
        avg_loss == RollingMean(Loss(prices), period, k)
        rs == RDiv(avg_gain, RAdd(avg_loss, <<1, 1000>>))
    IN  RSub(R(100), RDiv(R(100), RAdd(R(1), rs)))

\* strategy_2.py:22-44  calculate_rsi(prices, period) at position k
calculate_rsi(prices, period, k) ==
    LET avg_gain == RollingMean(Gain(prices), period, k)
        avg_loss == RollingMean(Loss(prices), period, k)
        rs == RDiv(avg_gain, avg_loss)
    IN  RSub(R(100), RDiv(R(100), RAdd(R(1), rs)))

\* strategy_3.py:28-39  prices.ewm(span=period, adjust=False).mean(), the
\* first k cells of the column: y[0] = x[0], y[t] = (1 - a) y[t-1] + a x[t]
\* with a = 2 / (span + 1).
RECURSIVE EwmMean(_, _, _)
EwmMean(prices, period, k) ==
    IF k = 0 THEN <<>>
    ELSE IF k = 1 THEN <<prices[1]>>
    ELSE LET a == Norm(2, period + 1)
             y == EwmMean(prices, period, k - 1)
         IN  Append(y, RAdd(RMul(RSub(R(1), a), y[k - 1]), RMul(a, prices[k])))

calculate_ema(prices, period) == EwmMean(prices, period, Len(prices))

\* a - b of two columns, the first k cells
RECURSIVE ColumnSub(_, _, _)
ColumnSub(a, b, k) ==
    IF k = 0 THEN <<>>
    ELSE Append(ColumnSub(a, b, k - 1), RSub(a[k], b[k]))

\* Mutant: the histogram is signal line - MACD line.
calculate_macd_flipped(prices, fast_period, slow_period, signal_period) ==
    LET ema_fast == calculate_ema(prices, fast_period)
        ema_slow == calculate_ema(prices, slow_period)
        macd_line == ColumnSub(ema_fast, ema_slow, Len(prices))
        signal_line == calculate_ema(macd_line, signal_period)
        histogram == ColumnSub(signal_line, macd_line, Len(prices))
    IN  <<macd_line, signal_line, histogram>>

\* strategy_3.py:60-67  calculate_macd: (macd_line, signal_line, histogram)
calculate_macd(prices, fast_period, slow_period, signal_period) ==
    LET ema_fast == calculate_ema(prices, fast_period)
        ema_slow == calculate_ema(prices, slow_period)
        macd_line == ColumnSub(ema_fast, ema_slow, Len(prices))
        signal_line == calculate_ema(macd_line, signal_period)
        histogram == ColumnSub(macd_line, signal_line, Len(prices))
    IN  <<macd_line, signal_line, histogram>>

\* strategy_3.py:70-81  calculate_volume_ma
calculate_volume_ma(volume, period, k) == RollingMean(volume, period, k)

\* ------------------------------------------------------------- strategies

\* Mutant: a "cross" is the short line being above the long one, whatever
\* the previous bar.
GoldenCrossNoPrev(prev_a, prev_b, curr_a, curr_b) == RGt(curr_a, curr_b)

\* Mutant: the golden cross asks for prev_short < prev_long.
GoldenCrossStrict(prev_a, prev_b, curr_a, curr_b) ==
    RLt(prev_a, prev_b) /\ RGt(curr_a, curr_b)

\* strategy_1.py:74, strategy_2.py:120, strategy_3.py:166
\* prev_a <= prev_b and curr_a > curr_b
GoldenCross(prev_a, prev_b, curr_a, curr_b) ==
    RLe(prev_a, prev_b) /\ RGt(curr_a, curr_b)

\* strategy_1.py:78, strategy_2.py:127, strategy_3.py:173
\* prev_a >= prev_b and curr_a < curr_b
DeathCross(prev_a, prev_b, curr_a, curr_b) ==
    RGe(prev_a, prev_b) /\ RLt(curr_a, curr_b)

\* The MA_Short and MA_Long columns (strategy_1.py:52-53, strategy_2.py:99-100)
MA_Short(k) == RollingMean(Close, strategy.short_window, k)

MA_Long(k) == RollingMean(Close, strategy.long_window, k)

\* strategy_1.py:60-79  the Signal cell of position k (index i = k - 1)
Signal1(k) ==
    IF k = 1 THEN 0
    ELSE IF IsNaN(MA_Short(k)) \/ IsNaN(MA_Long(k)) THEN 0
    ELSE IF GoldenCross(MA_Short(k - 1), MA_Long(k - 1), MA_Short(k), MA_Long(k))
         THEN 1
    ELSE IF DeathCross(MA_Short(k - 1), MA_Long(k - 1), MA_Short(k), MA_Long(k))
         THEN -1
    ELSE 0

\* The RSI column (strategy_2.py:103)
RSI(k) == calculate_rsi(Close, strategy.rsi_period, k)

\* Mutant: the buy assignment comes last and wins.
BuyWins(buy, sell) == IF buy THEN 1 ELSE IF sell THEN -1 ELSE 0

\* strategy_2.py:123-131, strategy_3.py:169-177  the buy assignment, then the
\* sell assignment, which overwrites it.
SellWins(buy, sell) == IF sell THEN -1 ELSE IF buy THEN 1 ELSE 0

\* strategy_2.py:106-131  the Signal cell of position k
Signal2(k) ==
    IF k = 1 THEN 0
    ELSE IF IsNaN(MA_Short(k)) \/ IsNaN(MA_Long(k)) \/ IsNaN(RSI(k)) THEN 0
    ELSE LET is_golden_cross ==
                 GoldenCross(MA_Short(k - 1), MA_Long(k - 1),
                             MA_Short(k), MA_Long(k))
             is_rsi_ok == RLt(RSI(k), strategy.rsi_buy_threshold)
             is_death_cross ==
                 DeathCross(MA_Short(k - 1), MA_Long(k - 1),
                            MA_Short(k), MA_Long(k))
             is_rsi_overbought == RGt(RSI(k), strategy.rsi_overbought)
         IN  SellWins(is_golden_cross /\ is_rsi_ok,
                      is_death_cross \/ is_rsi_overbought)

\* The MACD, Signal_Line and Histogram columns (strategy_3.py:132-141)
MacdColumns ==
    calculate_macd(Close, strategy.fast_period, strategy.slow_period,
                   strategy.signal_period)

\* The Volume_MA column (strategy_3.py:144)
Volume_MA(k) == calculate_volume_ma(Volume, strategy.volume_ma_period, k)

\* Mutant: only the death cross sells.
SellOnDeathCrossOnly(is_death_cross, is_histogram_negative) == is_death_cross

\* strategy_3.py:176  is_death_cross or is_histogram_negative
SellCondition3(is_death_cross, is_histogram_negative) ==
    is_death_cross \/ is_histogram_negative

\* strategy_3.py:147-177  the Signal cell of position k, given the columns
\* MACD, Signal_Line and Histogram
Signal3(k, MACD, Signal_Line, Histogram) ==
    IF k = 1 THEN 0
    ELSE IF \/ IsNaN(MACD[k])
            \/ IsNaN(Signal_Line[k])
            \/ IsNaN(Histogram[k])
            \/ IsNaN(Volume_MA(k))
         THEN 0
    ELSE LET is_golden_cross ==
                 GoldenCross(MACD[k - 1], Signal_Line[k - 1],
                             MACD[k], Signal_Line[k])
             is_volume_confirmed ==
                 RGt(Volume[k], RMul(Volume_MA(k), strategy.volume_threshold))
             is_death_cross ==
                 DeathCross(MACD[k - 1], Signal_Line[k - 1],
                            MACD[k], Signal_Line[k])
             is_histogram_negative == RLt(Histogram[k], Zero)
         IN  SellWins(is_golden_cross /\ is_volume_confirmed,
                      SellCondition3(is_death_cross, is_histogram_negative))

\* Mutant: the warm-up rows, whose moving averages are NaN, are dropped from
\* the frame before the Signal column is built.
GenerateSignals1Dropna ==
    /\ pc = "data"
    /\ strategy.class = "Strategy1"
    /\ signals' = SelectSeq([k \in 1..Len(df) |->
                                IF IsNaN(MA_Short(k)) \/ IsNaN(MA_Long(k))
                                THEN 2 ELSE Signal1(k)],
                            LAMBDA x : x # 2)
    /\ pc' = "signals"
    /\ UNCHANGED <<df, strategy>>

\* generate_signals of the three classes: the Signal column, one cell per bar.
GenerateSignals1 ==
    /\ pc = "data"
    /\ strategy.class = "Strategy1"
    /\ signals' = [k \in 1..Len(df) |-> Signal1(k)]
    /\ pc' = "signals"
    /\ UNCHANGED <<df, strategy>>

GenerateSignals2 ==
    /\ pc = "data"
    /\ strategy.class = "Strategy2"
    /\ signals' = [k \in 1..Len(df) |-> Signal2(k)]
    /\ pc' = "signals"
    /\ UNCHANGED <<df, strategy>>

GenerateSignals3 ==
    /\ pc = "data"
    /\ strategy.class = "Strategy3"
    /\ \E m \in {MacdColumns} :
          signals' = [k \in 1..Len(df) |-> Signal3(k, m[1], m[2], m[3])]
    /\ pc' = "signals"
    /\ UNCHANGED <<df, strategy>>

\* Bar sequences of at most n bars with the given closes and volumes.
BarSeqs(closes, volumes, n) ==
    UNION {[1..m -> [Close : closes, Volume : volumes]] : m \in 0..n}

\* The parameter sets the strategies are built with.
Strategy1Params ==
    {[class |-> "Strategy1", short_window |-> w[1], long_window |-> w[2]] :
        w \in {<<1, 2>>, <<2, 3>>, <<1, 3>>, <<2, 1>>, <<2, 2>>}}

Strategy2Params ==
    {[class |-> "Strategy2", short_window |-> w[1], long_window |-> w[2],
      rsi_period |-> p, rsi_buy_threshold |-> R(t[1]),
      rsi_overbought |-> R(t[2])] :
        w \in {<<1, 2>>, <<2, 3>>}, p \in {1, 2},
        t \in {<<50, 70>>, <<90, 30>>}}

Strategy3Params ==
    {[class |-> "Strategy3", fast_period |-> q[1], slow_period |-> q[2],
      signal_period |-> q[3], volume_ma_period |-> q[4],
      volume_threshold |-> q[5]] :
        q \in {<<1, 3, 3, 2, <<6, 5>>>>, <<2, 3, 2, 1, <<1, 2>>>>,
               <<1, 2, 3, 3, <<6, 5>>>>}}

\* An idle engine beside the strategy under test.
EngineIdle ==
    /\ initial_capital = R(100)
    /\ commission = Zero
    /\ trades = <<>>
    /\ cash = Zero
    /\ shares = Zero
    /\ positions = <<>>
    /\ portfolio = <<>>
    /\ returned = <<>>
    /\ metrics = <<>>

StrategyInit(params, closes, volumes) ==
    /\ pc = "data"
    /\ strategy \in params
    /\ df \in BarSeqs(closes, volumes, MaxLen)
    /\ signals = <<>>
    /\ EngineIdle
    /\ LoaderIdle
    /\ GuiIdle
    /\ AppIdle

engineData == <<initial_capital, commission, trades, cash, shares, positions,
                portfolio, returned, metrics>>

\* Strategy1.generate_signals on every bar sequence (Volume is not read).
SpecS1 ==
    /\ StrategyInit(Strategy1Params, Closes, {1})
    /\ [][GenerateSignals1
            /\ UNCHANGED <<engineData, loaderVars, appVars, guiVars>>]_vars

\* Strategy2.generate_signals on every bar sequence (Volume is not read).
SpecS2 ==
    /\ StrategyInit(Strategy2Params, Closes, {1})
    /\ [][GenerateSignals2
            /\ UNCHANGED <<engineData, loaderVars, appVars, guiVars>>]_vars

\* Strategy3.generate_signals on every bar sequence.
SpecS3 ==
    /\ StrategyInit(Strategy3Params, MacdCloses, Volumes)
    /\ [][GenerateSignals3
            /\ UNCHANGED <<engineData, loaderVars, appVars, guiVars>>]_vars

\* generate_signals of any of the three classes on every bar sequence.
StrategiesInit ==
    \/ StrategyInit(Strategy1Params, Closes, {1})
    \/ StrategyInit(Strategy2Params, Closes, {1})
    \/ StrategyInit(Strategy3Params, MacdCloses, Volumes)

StrategiesNext ==
    \/ GenerateSignals1 /\ UNCHANGED engineData
    \/ GenerateSignals2 /\ UNCHANGED engineData
    \/ GenerateSignals3 /\ UNCHANGED engineData

SpecStrategies ==
    StrategiesInit
    /\ [][StrategiesNext /\ UNCHANGED <<loaderVars, appVars, guiVars>>]_vars

\* ------------------------------------------------- BacktestEngine.run

\* The strategies and commissions of the runs.
RunStrategies ==
    {[class |-> "Strategy1", short_window |-> w[1], long_window |-> w[2]] :
        w \in {<<2, 3>>, <<1, 2>>}}
    \cup {[class |-> "Strategy2", short_window |-> 1, long_window |-> 2,
           rsi_period |-> 2, rsi_buy_threshold |-> R(50),
           rsi_overbought |-> R(70)]}
    \cup {[class |-> "Strategy3", fast_period |-> 1, slow_period |-> 3,
           signal_period |-> 3, volume_ma_period |-> 2,
           volume_threshold |-> <<6, 5>>]}

\* The bars downloaded for a run: the closes and volumes the strategy's
\* indicators tell apart.
RunBars(class) ==
    IF class = "Strategy1" THEN BarSeqs(Closes, {1}, MaxLen)
    ELSE IF class = "Strategy2" THEN BarSeqs(MacdCloses, {1}, MaxLen)
    ELSE BarSeqs(Prices, Volumes, MaxLen)

RunCommissions == {<<0, 1>>, <<1, 10>>, <<1, 1>>}

\* engine.py:66-72  run() has loaded and validated the data (not empty) and
\* handed them to the strategy.
RunInit ==
    /\ pc = "data"
    /\ strategy \in RunStrategies
    /\ df \in RunBars(strategy.class) \ {<<>>}
    /\ signals = <<>>
    /\ initial_capital \in {R(c) : c \in Capitals}
    /\ commission \in RunCommissions
    /\ trades = <<>>
    /\ cash = Zero
    /\ shares = Zero
    /\ positions = <<>>
    /\ portfolio = <<>>
    /\ returned = <<>>
    /\ metrics = <<>>
    /\ LoaderIdle
    /\ GuiIdle
    /\ AppIdle

\* engine.py:76  signals = strategy.generate_signals()
RunGenerateSignals ==
    /\ GenerateSignals1 \/ GenerateSignals2 \/ GenerateSignals3
    /\ UNCHANGED engineData

\* engine.py:79-84  results = data.merge(signals); _execute_backtest(results)
RunExecuteBegin == ExecuteBacktestBegin /\ UNCHANGED strategyVars

\* The loop of _execute_backtest over the merged frame: row i holds the
\* bar's Close and the strategy's Signal.
RunExecuteLoop ==
    /\ Len(portfolio) < Len(df)
    /\ ExecuteBar(df[Len(portfolio) + 1].Close, signals[Len(portfolio) + 1])
    /\ UNCHANGED strategyVars

RunExecuteEnd ==
    /\ Len(portfolio) = Len(df)
    /\ ExecuteBacktestEnd
    /\ UNCHANGED strategyVars

\* ------------------------------------- BacktestEngine.run: load, validate

\* data_loader.py:76, 109
RequiredColumns == {"Date", "Open", "High", "Low", "Close", "Volume"}

\* The frames ticker.history can answer: with or without the Volume column,
\* of at most MaxLen rows, a Close missing in any of them.
SourceFrames ==
    {[columns |-> c, rows |-> r] :
        c \in {RequiredColumns, RequiredColumns \ {"Volume"}},
        r \in BarSeqs(Prices \cup {Null}, {1}, MaxLen)}

\* df[required_columns].isnull().any().any()
HasNull(frame) == \E k \in DOMAIN frame.rows : frame.rows[k].Close = Null

\* data_loader.py:96-119  DataLoader.validate_data: False for an empty frame
\* and for a missing column; a missing value is only printed as a warning.
validate_data(frame) ==
    IF frame.rows = <<>> THEN FALSE
    ELSE IF \E col \in RequiredColumns : col \notin frame.columns THEN FALSE
    ELSE TRUE

\* A strategy was built and handed to run() of a new engine.
LoadInit ==
    /\ pc = "idle"
    /\ strategy \in {st \in RunStrategies : st.class = "Strategy1"}
    /\ df = <<>>
    /\ signals = <<>>
    /\ EngineIdle
    /\ LoaderIdle
    /\ GuiIdle
    /\ AppIdle

\* data_loader.py:60-94  load_stock_data: raises when the download is empty
\* (65-66) or lacks a required column (77), else returns the frame.
LoadStockData ==
    /\ pc = "idle"
    /\ \E frame \in SourceFrames :
          IF frame.rows = <<>> \/ ~(RequiredColumns \subseteq frame.columns)
          THEN pc' = "error" /\ data' = data
          ELSE pc' = "loaded" /\ data' = frame
    /\ UNCHANGED <<strategyVars, engineData, appVars>>

\* engine.py:68-72  if not validate_data(data): raise ValueError; else
\* strategy.set_data(data)
RunValidate ==
    /\ pc = "loaded"
    /\ IF ~validate_data(data)
       THEN pc' = "error" /\ df' = df
       ELSE pc' = "data" /\ df' = data.rows
    /\ UNCHANGED <<strategy, signals, data, engineData, appVars>>

LoadNext ==
    \/ LoadStockData
    \/ RunValidate
    \/ GenerateSignals1 /\ UNCHANGED <<engineData, loaderVars, appVars>>

\* BacktestEngine.run from the download to the strategy's signals.
SpecLoad == LoadInit /\ [][LoadNext /\ UNCHANGED guiVars]_vars

\* ------------------------------------- BacktestEngine.run: the metrics

\* Mutant: the total return is the ratio of the final value to the capital.
total_return_ratio(final_value) == RDiv(final_value, initial_capital)

\* engine.py:188  (final_value - self.initial_capital) / self.initial_capital
total_return(final_value) ==
    RDiv(RSub(final_value, initial_capital), initial_capital)

\* Mutant: the maximum of the whole series, not of its first k values.
CumulativeMaxWhole(values, k) ==
    CHOOSE m \in {values[j] : j \in DOMAIN values} :
        \A j \in DOMAIN values : RLe(values[j], m)

\* engine.py:201  portfolio_values.expanding().max() at position k: the
\* largest of the first k values, NaN skipped.
RECURSIVE CumulativeMax(_, _)
CumulativeMax(values, k) ==
    IF k = 1 THEN values[1]
    ELSE LET m == CumulativeMax(values, k - 1)
         IN  IF IsNaN(m) \/ RGt(values[k], m) THEN values[k] ELSE m

\* engine.py:202  (portfolio_values - cumulative_max) / cumulative_max
Drawdown(values) ==
    [k \in DOMAIN values |->
        RDiv(RSub(values[k], CumulativeMax(values, k)),
             CumulativeMax(values, k))]

\* engine.py:203  drawdown.min(): the least of the first k cells, NaN
\* skipped, NaN when there is none.
RECURSIVE SeriesMin(_, _)
SeriesMin(series, k) ==
    IF k = 0 THEN NaN
    ELSE LET m == SeriesMin(series, k - 1)
         IN  IF IsNaN(m) \/ RLt(series[k], m) THEN series[k] ELSE m

\* Numbers that are not fractions are kept as the exact expression that
\* yields them:
\*   [sqrt_of |-> q]            the square root of the double q (NaN for NaN)
\*   [growth |-> b, days |-> n] b ** (365.25 / n) - 1
\*   [num |-> a, den |-> v]     a / v
\* and the 0 the code answers in place of each of them is the expression of
\* that form whose value is 0.
SqrtOf(q) == [sqrt_of |-> q]

AnnualZero == [growth |-> R(1), days |-> 0]

SharpeZero == [num |-> AnnualZero, den |-> SqrtOf(R(1))]

\* engine.py:196, app.py:74  Returns.dropna()
DropNa(series) == SelectSeq(series, LAMBDA x : ~IsNaN(x))

RECURSIVE SeriesSum(_, _)
SeriesSum(series, k) ==
    IF k = 0 THEN Zero ELSE RAdd(SeriesSum(series, k - 1), series[k])

\* The square of pandas' Series.std() (ddof = 1): NaN for fewer than two
\* observations, else the sum of the squared deviations from the mean
\* divided by n - 1.
SampleVariance(returns) ==
    IF Len(returns) < 2 THEN NaN
    ELSE LET n == Len(returns)
             mean == RDiv(SeriesSum(returns, n), R(n))
             squares == [k \in 1..n |->
                            RMul(RSub(returns[k], mean), RSub(returns[k], mean))]
         IN  RDiv(SeriesSum(squares, n), R(n - 1))

\* app.py:75  float(returns.std() * np.sqrt(252)) if len(returns) > 1
\* else 0.0
VolatilityLikeEngine(returns) ==
    IF Len(returns) > 1
    THEN SqrtOf(RMul(R(252), SampleVariance(returns)))
    ELSE SqrtOf(Zero)

\* engine.py:196-197  returns.std() * np.sqrt(252)
\* = sqrt(252 * variance)
Volatility(returns) == SqrtOf(RMul(R(252), SampleVariance(returns)))

\* engine.py:191-193, app.py:70-72  days = (last Date - first Date).days;
\* years = days / 365.25;
\* (1 + total_return) ** (1 / years) - 1 if years > 0 else 0
AnnualReturn(total_return_, days) ==
    IF days > 0
    THEN [growth |-> RAdd(R(1), total_return_), days |-> days]
    ELSE AnnualZero

\* Mutant: the division is made whatever the volatility.
SharpeRatioUnguarded(annual_return, volatility) ==
    [num |-> annual_return, den |-> volatility]

\* engine.py:206, app.py:82  annual_return / volatility if volatility > 0
\* else 0
SharpeRatio(annual_return, volatility) ==
    IF RGt(volatility.sqrt_of, Zero)
    THEN [num |-> annual_return, den |-> volatility]
    ELSE SharpeZero

\* engine.py:209  num_trades: the length of self.trades, 0 while it is None.
NumTrades == IF trades # <<>> THEN Len(trades) ELSE 0

\* engine.py:172-227  the dict of _calculate_metrics.
\* portfolio_ is the history, closes the Close column of the data.
CalculateMetrics(portfolio_, closes) ==
    LET values == [k \in DOMAIN portfolio_ |-> portfolio_[k].Portfolio_Value]
        final_value == values[Len(values)]
        days == portfolio_[Len(portfolio_)].Date - portfolio_[1].Date
        annual_return == AnnualReturn(total_return(final_value), days)
        returns == DropNa([k \in DOMAIN portfolio_ |-> portfolio_[k].Returns])
        volatility == Volatility(returns)
        buy_hold_return ==
            RDiv(RSub(closes[Len(closes)], closes[1]), closes[1])
    IN  [initial_capital |-> initial_capital,
         final_value |-> final_value,
         total_return |-> total_return(final_value),
         annual_return |-> annual_return,
         volatility |-> volatility,
         max_drawdown |-> SeriesMin(Drawdown(values), Len(values)),
         sharpe_ratio |-> SharpeRatio(annual_return, volatility),
         num_trades |-> NumTrades,
         buy_hold_return |-> buy_hold_return,
         excess_return |-> RSub(total_return(final_value), buy_hold_return)]

\* engine.py:87-101  metrics = self._calculate_metrics(portfolio, results),
\* and run() returns.
RunCalculateMetrics ==
    /\ pc = "done"
    /\ pc' = "reported"
    /\ metrics' = CalculateMetrics(portfolio, Close)
    /\ UNCHANGED <<initial_capital, commission, trades, cash, shares,
                   positions, portfolio, returned>>
    /\ UNCHANGED strategyVars

RunNext ==
    \/ RunGenerateSignals
    \/ RunExecuteBegin
    \/ RunExecuteLoop
    \/ RunExecuteEnd
    \/ RunCalculateMetrics

\* BacktestEngine.run with a strategy of one of the three classes.
SpecRun ==
    RunInit /\ [][RunNext /\ UNCHANGED <<loaderVars, appVars, guiVars>>]_vars

\* ------------------------------ app.py: _run_portfolio_backtest_cached

\* The trading days of the period, and the symbols asked for.
Dates == 1..MaxDates

SymbolTuples == {<<>>, <<"A">>, <<"A", "B">>}

\* The members of a set of days in ascending order.
RECURSIVE SortedSeq(_)
SortedSeq(S) ==
    IF S = {} THEN <<>>
    ELSE LET m == CHOOSE x \in S : \A y \in S : x <= y
         IN  <<m>> \o SortedSeq(S \ {m})

\* app.py:175  per_capital = initial_capital / len(symbols)
PerCapital == RDiv(initial_capital, R(Len(symbols)))

\* What _run_backtest_cached can answer for one symbol run with per_capital:
\* a history over the symbol's trading days (not empty, ascending), whose
\* value at a day is per_capital or half of it, and the num_trades of its
\* metrics.
SingleRuns ==
    {[portfolio |-> [k \in 1..Len(SortedSeq(days)) |->
                        [Date |-> SortedSeq(days)[k],
                         Portfolio_Value |-> RMul(PerCapital, v[SortedSeq(days)[k]])]],
      metrics |-> [num_trades |-> n]] :
        days \in (SUBSET Dates) \ {{}},
        v \in [Dates -> {R(1), <<1, 2>>}],
        n \in {0, 1}}

\* The index of the series app.py:206 builds from a run: its days.
RunDates(run) == {run.portfolio[k].Date : k \in DOMAIN run.portfolio}

\* The value of a run at one of its days.
ValueOn(run, day) ==
    LET k == CHOOSE j \in DOMAIN run.portfolio : run.portfolio[j].Date = day
    IN  run.portfolio[k].Portfolio_Value

\* Mutant: the series are aligned on the days any of them has.
JoinDatesOuter(value_series) ==
    UNION {RunDates(value_series[i]) : i \in DOMAIN value_series}

\* app.py:209  pd.concat(value_series, axis=1, join="inner"): the index of
\* combined, the days all the series have.
JoinDates(value_series) ==
    {day \in UNION {RunDates(value_series[i]) : i \in DOMAIN value_series} :
        \A i \in DOMAIN value_series : day \in RunDates(value_series[i])}

\* Mutant: the sum leaves out the first series.
RECURSIVE TotalValueSkipFirst(_, _, _)
TotalValueSkipFirst(value_series, day, i) ==
    IF i <= 1 THEN Zero
    ELSE RAdd(TotalValueSkipFirst(value_series, day, i - 1),
              IF day \in RunDates(value_series[i])
              THEN ValueOn(value_series[i], day) ELSE Zero)

\* app.py:213  combined.sum(axis=1) at a day: the sum over the first i
\* series of the values present at the day.
RECURSIVE TotalValue(_, _, _)
TotalValue(value_series, day, i) ==
    IF i = 0 THEN Zero
    ELSE RAdd(TotalValue(value_series, day, i - 1),
              IF day \in RunDates(value_series[i])
              THEN ValueOn(value_series[i], day) ELSE Zero)

\* app.py:215  pct_change().fillna(0.0) at position k
PctChange(values, k) ==
    IF k = 1 THEN Zero
    ELSE LET r == RDiv(RSub(values[k], values[k - 1]), values[k - 1])
         IN  IF IsNaN(r) THEN Zero ELSE r

\* app.py:213-215  the portfolio frame over the days of combined, ascending
CombinedPortfolio(value_series, days) ==
    LET index == SortedSeq(days)
        values == [k \in DOMAIN index |->
                      TotalValue(value_series, index[k], Len(value_series))]
    IN  [k \in DOMAIN index |->
            [Date |-> index[k], Portfolio_Value |-> values[k],
             Returns |-> PctChange(values, k)]]

RECURSIVE SumNumTrades(_, _)
SumNumTrades(runs, i) ==
    IF i = 0 THEN 0 ELSE SumNumTrades(runs, i - 1) + runs[i].metrics.num_trades

\* app.py:66-92  _calc_metrics_like_engine(portfolio, initial_capital)
CalcMetricsLikeEngine(portfolio_, capital) ==
    LET values == [k \in DOMAIN portfolio_ |-> portfolio_[k].Portfolio_Value]
        final_value == values[Len(values)]
        total_return_ == RDiv(RSub(final_value, capital), capital)
        days == portfolio_[Len(portfolio_)].Date - portfolio_[1].Date
        annual_return == AnnualReturn(total_return_, days)
        returns == DropNa([k \in DOMAIN portfolio_ |-> portfolio_[k].Returns])
        volatility == VolatilityLikeEngine(returns)
    IN  [initial_capital |-> capital,
         final_value |-> final_value,
         total_return |-> total_return_,
         annual_return |-> annual_return,
         volatility |-> volatility,
         max_drawdown |-> IF Len(values) > 0
                          THEN SeriesMin(Drawdown(values), Len(values))
                          ELSE Zero,
         sharpe_ratio |-> SharpeRatio(annual_return, volatility)]

\* app.py:217-225  the metrics of the combination: those of
\* _calc_metrics_like_engine and the num_trades summed over the runs
\* (buy_hold_return and excess_return, averaged over the runs, are left out).
CombinedMetrics(portfolio_, runs) ==
    LET m == CalcMetricsLikeEngine(portfolio_, initial_capital)
    IN  [initial_capital |-> m.initial_capital,
         final_value |-> m.final_value,
         total_return |-> m.total_return,
         annual_return |-> m.annual_return,
         volatility |-> m.volatility,
         max_drawdown |-> m.max_drawdown,
         sharpe_ratio |-> m.sharpe_ratio,
         num_trades |-> SumNumTrades(runs, Len(runs))]

\* app.py:228-242  the per-symbol table
PerSymbolTable(runs) ==
    [i \in DOMAIN runs |->
        [symbol |-> runs[i].symbol, num_trades |-> runs[i].metrics.num_trades]]

\* _run_portfolio_backtest_cached is called with a tuple of symbols.
PortfolioInit ==
    /\ pc = "app"
    /\ symbols \in SymbolTuples
    /\ per_symbol_runs = <<>>
    /\ result = <<>>
    /\ EngineIdle
    /\ StrategyIdle
    /\ LoaderIdle
    /\ GuiIdle

\* app.py:172-173  if not symbols: raise ValueError
PortfolioNoSymbols ==
    /\ pc = "app"
    /\ symbols = <<>>
    /\ pc' = "error"
    /\ UNCHANGED appVars

\* app.py:178-199  one iteration of the loop over symbols
PortfolioRunSymbol ==
    /\ pc = "app"
    /\ Len(per_symbol_runs) < Len(symbols)
    /\ \E single \in SingleRuns :
          per_symbol_runs' =
              Append(per_symbol_runs,
                     [symbol |-> symbols[Len(per_symbol_runs) + 1],
                      portfolio |-> single.portfolio,
                      metrics |-> single.metrics])
    /\ UNCHANGED <<pc, symbols, result>>

\* app.py:201-251  after the loop: the series are joined on their common
\* days; an empty join raises, else the portfolio, its metrics and the
\* per-symbol table are returned.
PortfolioCombine ==
    /\ pc = "app"
    /\ symbols # <<>>
    /\ Len(per_symbol_runs) = Len(symbols)
    /\ \E combined \in {JoinDates(per_symbol_runs)} :
          IF combined = {}
          THEN pc' = "error" /\ result' = result
          ELSE /\ pc' = "combined"
               /\ \E portfolio_ \in
                       {CombinedPortfolio(per_symbol_runs, combined)} :
                     result' =
                         [portfolio |-> portfolio_,
                          metrics |-> CombinedMetrics(portfolio_, per_symbol_runs),
                          per_symbol |-> PerSymbolTable(per_symbol_runs)]
    /\ UNCHANGED <<symbols, per_symbol_runs>>

PortfolioNext ==
    \/ PortfolioNoSymbols
    \/ PortfolioRunSymbol
    \/ PortfolioCombine

\* _run_portfolio_backtest_cached on every tuple of symbols and every
\* combination of per-symbol results.
SpecPortfolio ==
    PortfolioInit
    /\ [][PortfolioNext
             /\ UNCHANGED <<engineData, strategyVars, loaderVars, guiVars>>]_vars

\* _run_portfolio_backtest_cached with the one symbol whose run() has just
\* returned: the loop of app.py:178-199 has made that run (per_capital is
\* initial_capital), and its history is combined as at app.py:201-251.
PortfolioOfRun ==
    /\ pc = "reported"
    /\ pc' = "combined"
    /\ symbols' = <<"A">>
    /\ \E runs \in {<<[symbol |-> "A", portfolio |-> portfolio,
                        metrics |-> metrics]>>} :
          /\ per_symbol_runs' = runs
          /\ \E portfolio_ \in {CombinedPortfolio(runs, JoinDates(runs))} :
                result' = [portfolio |-> portfolio_,
                           metrics |-> CombinedMetrics(portfolio_, runs),
                           per_symbol |-> PerSymbolTable(runs)]
    /\ UNCHANGED <<engineData, strategyVars>>

AppRunNext ==
    \/ RunGenerateSignals /\ UNCHANGED appVars
    \/ RunExecuteBegin /\ UNCHANGED appVars
    \/ RunExecuteLoop /\ UNCHANGED appVars
    \/ RunExecuteEnd /\ UNCHANGED appVars
    \/ RunCalculateMetrics /\ UNCHANGED appVars
    \/ PortfolioOfRun

\* A portfolio backtest of one symbol: BacktestEngine.run, then the
\* combination of app.py.
SpecAppRun ==
    RunInit /\ [][AppRunNext /\ UNCHANGED <<loaderVars, guiVars>>]_vars

\* ------------------------------------------------ gui.py: TradingLabGUI

\* What the user can type into the entries of the form.
SymbolEntries == {"", "AAPL", "TSLA"}

StartDateEntries == {"", "2021-01-01"}

EndDateEntries == {"", "2021-12-31"}

CapitalEntries == {"abc", "10000"}

\* float(self.capital_var.get()) raises ValueError (gui.py:199-203, 224).
IsNumber(text) == text # "abc"

\* gui.py:191-203  the entries pass the checks of start_backtest.
EntriesValid ==
    /\ symbol_var # ""
    /\ start_date_var # "" /\ end_date_var # ""
    /\ IsNumber(capital_var)

\* The worker threads that have not yet handed their outcome to the UI loop.
InFlight == {t \in DOMAIN threads : threads[t] = "run"}

\* The user edits the entries; they stay editable while a backtest runs.
EditEntries ==
    /\ symbol_var' \in SymbolEntries
    /\ start_date_var' \in StartDateEntries
    /\ end_date_var' \in EndDateEntries
    /\ capital_var' \in CapitalEntries
    /\ UNCHANGED <<run_button, save_button, status_var, results, threads,
                   after_queue>>

\* Mutant: start_backtest leaves the run button enabled.
StartBacktestKeepsButton ==
    /\ run_button = "normal"
    /\ Len(threads) < MaxThreads
    /\ IF ~EntriesValid
       THEN UNCHANGED <<save_button, status_var, threads>>
       ELSE /\ save_button' = "disabled"
            /\ status_var' = "running"
            /\ threads' = Append(threads, "run")
    /\ UNCHANGED <<run_button, symbol_var, start_date_var, end_date_var,
                   capital_var, results, after_queue>>

\* gui.py:183-215  start_backtest, the command of run_button: Tk calls it
\* only while the button is enabled.  Invalid entries show a message box and
\* return; otherwise both buttons are disabled and the worker thread is
\* started.  The handler runs on the UI loop, so no other callback runs
\* between its statements.
StartBacktest ==
    /\ run_button = "normal"
    /\ Len(threads) < MaxThreads
    /\ IF ~EntriesValid
       THEN UNCHANGED <<run_button, save_button, status_var, threads>>
       ELSE /\ run_button' = "disabled"
            /\ save_button' = "disabled"
            /\ status_var' = "running"
            /\ threads' = Append(threads, "run")
    /\ UNCHANGED <<symbol_var, start_date_var, end_date_var, capital_var,
                   results, after_queue>>

\* gui.py:217-254  run_backtest_thread of worker t.  It reads the entries
\* again; when they are valid and engine.run returns, self.results is set
\* and update_results is scheduled on the UI loop; any exception (a bad
\* entry, a failed download, ...) schedules show_error instead.  The thread
\* is left with nothing but its return.
RunBacktestThread(t) ==
    /\ threads[t] = "run"
    /\ threads' = [threads EXCEPT ![t] = "exit"]
    /\ \/ /\ EntriesValid
          /\ results' = [symbol |-> symbol_var, capital |-> capital_var]
          /\ after_queue' = Append(after_queue, "update_results")
       \/ /\ results' = results
          /\ after_queue' = Append(after_queue, "show_error")
    /\ UNCHANGED <<run_button, save_button, status_var, symbol_var,
                   start_date_var, end_date_var, capital_var>>

\* Worker t returns from run_backtest_thread and is gone.
ThreadExit(t) ==
    /\ threads[t] = "exit"
    /\ threads' = SubSeq(threads, 1, t - 1) \o SubSeq(threads, t + 1, Len(threads))
    /\ UNCHANGED <<run_button, save_button, status_var, symbol_var,
                   start_date_var, end_date_var, capital_var, results,
                   after_queue>>

\* gui.py:256-302  update_results, run by the UI loop.
UpdateResults ==
    /\ after_queue # <<>>
    /\ Head(after_queue) = "update_results"
    /\ after_queue' = Tail(after_queue)
    /\ run_button' = "normal"
    /\ save_button' = "normal"
    /\ status_var' = "done"
    /\ UNCHANGED <<symbol_var, start_date_var, end_date_var, capital_var,
                   results, threads>>

\* gui.py:304-312  show_error, run by the UI loop.
ShowError ==
    /\ after_queue # <<>>
    /\ Head(after_queue) = "show_error"
    /\ after_queue' = Tail(after_queue)
    /\ run_button' = "normal"
    /\ save_button' = "disabled"
    /\ status_var' = "failed"
    /\ UNCHANGED <<symbol_var, start_date_var, end_date_var, capital_var,
                   results, threads>>

GuiInit ==
    /\ pc = "idle"
    /\ EngineIdle
    /\ StrategyIdle
    /\ LoaderIdle
    /\ AppIdle
    /\ GuiIdle

GuiNext ==
    \/ EditEntries
    \/ StartBacktest
    \/ \E t \in DOMAIN threads : RunBacktestThread(t)
    \/ \E t \in DOMAIN threads : ThreadExit(t)
    \/ UpdateResults
    \/ ShowError

\* The window of gui.py: the user, the worker threads and the UI loop.
SpecGui ==
    GuiInit
    /\ [][GuiNext
            /\ UNCHANGED <<engineVars, strategyVars, loaderVars, appVars>>]_vars

\* ------------------------------------------- claims on the simulator

\* The rows of the history written so far (row k is bar i = k - 1).
Rows == 1..Len(portfolio)

\* Cash and shares held before bar k: the previous row's, or the initial
\* cash = initial_capital, shares = 0.
PrevCash(k) == IF k = 1 THEN initial_capital ELSE portfolio[k - 1].Cash

PrevShares(k) == IF k = 1 THEN Zero ELSE portfolio[k - 1].Shares

\* The entries of the trade log made at bar k.
TradesAt(k) == {j \in 1..Len(positions) : positions[j].Date = k - 1}

\* The configuration the specification allows: initialCapital > 0 and
\* commissionRate in [0, 1).
ValidParams ==
    /\ RGt(initial_capital, Zero)
    /\ RGe(commission, Zero)
    /\ RLt(commission, R(1))

\* C1: at every bar of the history, Portfolio_Value = Cash + Shares * Price,
\* whatever the signals and whether or not the bar made a transition.
C1_ValueIdentity ==
    \A k \in Rows :
        REq(portfolio[k].Portfolio_Value,
            RAdd(portfolio[k].Cash,
                 RMul(portfolio[k].Shares, portfolio[k].Price)))

\* C1 witness: a history with a bar that bought at a close other than 1 and a
\* later bar that made no transition.
C1_Witness ==
    \E k \in Rows, m \in Rows :
        /\ k < m
        /\ TradesAt(k) # {}
        /\ TradesAt(m) = {}
        /\ portfolio[k].Price # R(1)
        /\ RGt(portfolio[m].Shares, Zero)

\* C2: FLAT at a bar whose signal is 1: shares becomes
\* cash * (1 - commission) / close with the cash held before the bar, cash
\* becomes 0, one BUY trade is appended, and (for a valid configuration) the
\* simulator is LONG.
C2_BuyTransition ==
    \A k \in Rows :
        (REq(PrevShares(k), Zero) /\ portfolio[k].Signal = 1) =>
            /\ portfolio[k].Shares =
                   RDiv(RMul(PrevCash(k), RSub(R(1), commission)),
                        portfolio[k].Price)
            /\ portfolio[k].Cash = Zero
            /\ Cardinality(TradesAt(k)) = 1
            /\ \A j \in TradesAt(k) : positions[j].Type = "BUY"
            /\ ValidParams => RGt(portfolio[k].Shares, Zero)

\* C2 witness: a buy after an earlier round trip, at a commission > 0.
C2_Witness ==
    /\ ValidParams
    /\ RGt(commission, Zero)
    /\ \E k \in Rows :
          /\ k > 2
          /\ REq(PrevShares(k), Zero)
          /\ portfolio[k].Signal = 1
          /\ PrevCash(k) # initial_capital

\* C3: LONG at a bar whose signal is -1: cash becomes
\* shares * close * (1 - commission) with the shares held before the bar,
\* shares becomes 0, and one SELL trade recording the shares sold is appended.
C3_SellTransition ==
    \A k \in Rows :
        (RGt(PrevShares(k), Zero) /\ portfolio[k].Signal = -1) =>
            /\ portfolio[k].Cash =
                   RMul(RMul(PrevShares(k), portfolio[k].Price),
                        RSub(R(1), commission))
            /\ portfolio[k].Shares = Zero
            /\ Cardinality(TradesAt(k)) = 1
            /\ \A j \in TradesAt(k) :
                  /\ positions[j].Type = "SELL"
                  /\ positions[j].Shares = PrevShares(k)

\* C3 witness: a sell at a commission > 0 and at another close than the buy.
C3_Witness ==
    /\ RGt(commission, Zero)
    /\ \E k \in Rows :
          /\ k > 1
          /\ RGt(PrevShares(k), Zero)
          /\ portfolio[k].Signal = -1
          /\ portfolio[k].Price # portfolio[k - 1].Price

\* C4: at a bar that is neither (buy, FLAT) nor (sell, LONG), cash and shares
\* are those of the previous bar and no trade is appended.
C4_NoTransition ==
    \A k \in Rows :
        (/\ ~(portfolio[k].Signal = 1 /\ REq(PrevShares(k), Zero))
         /\ ~(portfolio[k].Signal = -1 /\ RGt(PrevShares(k), Zero))) =>
            /\ portfolio[k].Cash = PrevCash(k)
            /\ portfolio[k].Shares = PrevShares(k)
            /\ TradesAt(k) = {}

\* C4 witness: one history holding a buy while LONG, a sell while FLAT and a
\* hold while LONG.
C4_Witness ==
    /\ \E k \in Rows : portfolio[k].Signal = 1 /\ RGt(PrevShares(k), Zero)
    /\ \E k \in Rows : portfolio[k].Signal = -1 /\ REq(PrevShares(k), Zero)
    /\ \E k \in Rows : portfolio[k].Signal = 0 /\ RGt(PrevShares(k), Zero)

\* C6: for initialCapital > 0, commission in [0, 1) and positive prices, at
\* every bar i > 0 exactly one of Cash > 0 and Shares > 0 holds.
C6_CashXorShares ==
    ValidParams =>
        \A k \in Rows :
            k > 1 =>
                (RGt(portfolio[k].Cash, Zero) # RGt(portfolio[k].Shares, Zero))

\* C6 witness: a valid configuration whose history is LONG at one bar i > 0
\* and FLAT again at a later one.
C6_Witness ==
    /\ ValidParams
    /\ \E k \in Rows, m \in Rows :
          /\ 1 < k
          /\ k < m
          /\ RGt(portfolio[k].Shares, Zero)
          /\ RGt(portfolio[m].Cash, Zero)

\* A FLAT -> LONG or LONG -> FLAT change of state at bar k.
WentLong(k) == REq(PrevShares(k), Zero) /\ RGt(portfolio[k].Shares, Zero)

WentFlat(k) == RGt(PrevShares(k), Zero) /\ REq(portfolio[k].Shares, Zero)

\* C7: in a valid configuration a trade record is appended at bar i iff the
\* state changes at bar i; the record carries the bar's date and close, the
\* type of the change and its share quantity; the log is in bar order and
\* self.trades is the log of the finished run.
C7_TradeIffTransition ==
    ValidParams =>
        /\ \A k \in Rows :
              /\ (WentLong(k) \/ WentFlat(k)) <=> TradesAt(k) # {}
              /\ Cardinality(TradesAt(k)) <= 1
              /\ \A j \in TradesAt(k) :
                    /\ positions[j].Price = portfolio[k].Price
                    /\ WentLong(k) =>
                          /\ positions[j].Type = "BUY"
                          /\ positions[j].Shares = portfolio[k].Shares
                    /\ WentFlat(k) =>
                          /\ positions[j].Type = "SELL"
                          /\ positions[j].Shares = PrevShares(k)
        /\ \A j \in 1..Len(positions) : positions[j].Date + 1 \in Rows
        /\ \A j \in 1..Len(positions) :
              j > 1 => positions[j - 1].Date < positions[j].Date
        /\ (pc = "done" /\ positions # <<>>) => trades = positions

\* C7 witness: a finished run with a BUY and a SELL in the log and a bar
\* without a trade between them.
C7_Witness ==
    /\ ValidParams
    /\ pc = "done"
    /\ Len(trades) = 2
    /\ trades[1].Date + 1 < trades[2].Date
    /\ trades[2].Type = "SELL"

\* ------------------------------------------- claims on the strategies

\* The sum of the closes (volumes) of the w bars ending at bar k.
RECURSIVE CloseSum(_, _)
CloseSum(k, w) == IF w = 0 THEN 0 ELSE df[k].Close + CloseSum(k - 1, w - 1)

RECURSIVE VolumeSum(_, _)
VolumeSum(k, w) == IF w = 0 THEN 0 ELSE df[k].Volume + VolumeSum(k - 1, w - 1)

\* Both moving averages are defined at bar k (k >= window).
MAsDefined(k) == k >= strategy.short_window /\ k >= strategy.long_window

\* short MA < (<=, >) long MA at bar k, both defined, in whole numbers:
\* sumS / sw < sumL / lw  iff  sumS * lw < sumL * sw.
ShortMinusLong(k) ==
    CloseSum(k, strategy.short_window) * strategy.long_window
        - CloseSum(k, strategy.long_window) * strategy.short_window

MAGoldenCross(k) ==
    /\ MAsDefined(k - 1)
    /\ ShortMinusLong(k - 1) <= 0
    /\ ShortMinusLong(k) > 0

MADeathCross(k) ==
    /\ MAsDefined(k - 1)
    /\ ShortMinusLong(k - 1) >= 0
    /\ ShortMinusLong(k) < 0

\* C9: Variant A, at every index i >= 1 where both moving averages are
\* defined: signal 1 iff prevShort <= prevLong and currShort > currLong,
\* -1 iff prevShort >= prevLong and currShort < currLong, 0 otherwise (a
\* comparison with an undefined previous average is false).
C9_Strategy1Signal ==
    pc = "signals" =>
        \A k \in 2..Len(df) :
            MAsDefined(k) =>
                /\ signals[k] = 1 <=> MAGoldenCross(k)
                /\ signals[k] = -1 <=> MADeathCross(k)
                /\ signals[k] = 0 <=> (~MAGoldenCross(k) /\ ~MADeathCross(k))

\* C9 witness: a series with a golden cross out of equal averages and a
\* later death cross.
C9_Witness ==
    /\ pc = "signals"
    /\ \E k \in 2..Len(df), m \in 2..Len(df) :
          /\ k < m
          /\ MAsDefined(k - 1)
          /\ ShortMinusLong(k - 1) = 0
          /\ signals[k] = 1
          /\ signals[m] = -1

\* The sums of the gains and of the losses of the RSI window ending at k.
RECURSIVE GainSum(_, _)
GainSum(k, w) ==
    IF w = 0 THEN 0
    ELSE (IF k > 1 /\ df[k].Close > df[k - 1].Close
          THEN df[k].Close - df[k - 1].Close ELSE 0) + GainSum(k - 1, w - 1)

RECURSIVE LossSum(_, _)
LossSum(k, w) ==
    IF w = 0 THEN 0
    ELSE (IF k > 1 /\ df[k].Close < df[k - 1].Close
          THEN df[k - 1].Close - df[k].Close ELSE 0) + LossSum(k - 1, w - 1)

\* RSI is defined at bar k: the window is full and is not flat (0 / 0).
RSIDefined(k) ==
    /\ k >= strategy.rsi_period
    /\ GainSum(k, strategy.rsi_period) + LossSum(k, strategy.rsi_period) > 0

\* RSI = 100 * G / (G + L) compared with a whole threshold t.
RSIBelow(k, t) ==
    100 * GainSum(k, strategy.rsi_period)
        < t * (GainSum(k, strategy.rsi_period) + LossSum(k, strategy.rsi_period))

RSIAbove(k, t) ==
    100 * GainSum(k, strategy.rsi_period)
        > t * (GainSum(k, strategy.rsi_period) + LossSum(k, strategy.rsi_period))

BuyCondition2(k) ==
    MAGoldenCross(k) /\ RSIBelow(k, strategy.rsi_buy_threshold[1])

SellCondition2(k) ==
    MADeathCross(k) \/ RSIAbove(k, strategy.rsi_overbought[1])

\* C8: Variant B, at every index i >= 1 where both moving averages and RSI
\* are defined: -1 iff death cross or RSI > rsi_overbought; otherwise 1 iff
\* golden cross and RSI < rsi_buy_threshold; otherwise 0.  So sell wins when
\* both hold, and a golden cross with RSI >= rsi_buy_threshold is no buy.
C8_Strategy2Signal ==
    pc = "signals" =>
        \A k \in 2..Len(df) :
            (MAsDefined(k) /\ RSIDefined(k)) =>
                /\ signals[k] = -1 <=> SellCondition2(k)
                /\ signals[k] = 1 <=> (~SellCondition2(k) /\ BuyCondition2(k))
                /\ signals[k] = 0 <=> (~SellCondition2(k) /\ ~BuyCondition2(k))
                /\ (MAGoldenCross(k)
                     /\ ~RSIBelow(k, strategy.rsi_buy_threshold[1]))
                       => signals[k] # 1

\* C8 witness: a bar on which the buy and the sell condition both hold.
C8_Witness ==
    /\ pc = "signals"
    /\ \E k \in 2..Len(df) :
          /\ MAsDefined(k)
          /\ RSIDefined(k)
          /\ BuyCondition2(k)
          /\ SellCondition2(k)
          /\ signals[k] = -1

\* The volume moving average is defined at bar k.
VolumeMADefined(k) == k >= strategy.volume_ma_period

\* volume > volumeMA * volume_threshold, in whole numbers.
VolumeConfirmed(k) ==
    df[k].Volume * strategy.volume_ma_period * strategy.volume_threshold[2]
        > VolumeSum(k, strategy.volume_ma_period) * strategy.volume_threshold[1]

MacdGoldenCross(m, k) ==
    RLe(m[1][k - 1], m[2][k - 1]) /\ RGt(m[1][k], m[2][k])

MacdDeathCross(m, k) ==
    RGe(m[1][k - 1], m[2][k - 1]) /\ RLt(m[1][k], m[2][k])

\* C10: Variant C, at every index i >= 1 where the volume MA is defined:
\* -1 iff the MACD line crosses below the signal line or Histogram < 0;
\* otherwise 1 iff it crosses above and volume > volumeMA * threshold;
\* otherwise 0.
C10_Strategy3Signal ==
    pc = "signals" =>
        \A m \in {MacdColumns} :
            \A k \in 2..Len(df) :
                VolumeMADefined(k) =>
                    LET sell == MacdDeathCross(m, k) \/ RLt(m[3][k], Zero)
                        buy == MacdGoldenCross(m, k) /\ VolumeConfirmed(k)
                    IN  /\ signals[k] = -1 <=> sell
                        /\ signals[k] = 1 <=> (~sell /\ buy)
                        /\ signals[k] = 0 <=> (~sell /\ ~buy)

\* C10 witness: a series with a buy and, later, a sell on a negative
\* histogram without a death cross.
C10_Witness ==
    /\ pc = "signals"
    /\ \E m \in {MacdColumns} :
          \E k \in 2..Len(df), j \in 2..Len(df) :
              /\ k < j
              /\ signals[k] = 1
              /\ signals[j] = -1
              /\ ~MacdDeathCross(m, j)

\* ------------------------------------------------- claims on a whole run

StrictlyIncreasing == \A k \in 2..Len(df) : df[k - 1].Close < df[k].Close

Scenario2 ==
    /\ pc = "done"
    /\ strategy.class = "Strategy1"
    /\ strategy.short_window = 2
    /\ strategy.long_window = 3
    /\ StrictlyIncreasing

NumSignals(v) == Cardinality({k \in 1..Len(signals) : signals[k] = v})

FinalValue == portfolio[Len(portfolio)].Portfolio_Value

\* C5 as stated: strictly increasing closes (longer than the warm-up) and
\* Variant A with windows 2 and 3 give exactly one buy signal, no sell, one
\* BUY trade and finalValue > initialCapital.
C5_OneBuyInUptrend ==
    (Scenario2 /\ Len(df) > strategy.long_window) =>
        /\ NumSignals(1) = 1
        /\ NumSignals(-1) = 0
        /\ Len(positions) = 1
        /\ positions[1].Type = "BUY"
        /\ RGt(FinalValue, initial_capital)

\* C5 as amended: strictly increasing closes and Variant A with windows 2
\* and 3 give no buy and no sell signal (once both averages are defined the
\* short one is already above the long one, so it never crosses), hence no
\* trade and finalValue = initialCapital.
C5_NoTradeInUptrend ==
    Scenario2 =>
        /\ NumSignals(1) = 0
        /\ NumSignals(-1) = 0
        /\ positions = <<>>
        /\ trades = <<>>
        /\ FinalValue = initial_capital

\* C5 witness: a finished run on strictly increasing closes that go past the
\* warm-up.
C5_Witness == Scenario2 /\ Len(df) > strategy.long_window

\* --------------------------------- claims on the simulator, continued

\* (1 - commission)^2 * initial_capital
RoundTripCash ==
    RMul(initial_capital,
         RMul(RSub(R(1), commission), RSub(R(1), commission)))

\* Bar j makes the first buy of the history and bar k the sell that closes
\* it, both at the same close.
RoundTripAtOnePrice(j, k) ==
    /\ j < k
    /\ \A i \in 1..(j - 1) : TradesAt(i) = {}
    /\ portfolio[j].Signal = 1
    /\ REq(PrevShares(j), Zero)
    /\ \A i \in (j + 1)..(k - 1) : TradesAt(i) = {}
    /\ portfolio[k].Signal = -1
    /\ portfolio[k].Price = portfolio[j].Price

\* C15: for a commission c in [0, 1) and a positive price, a buy followed by
\* a sell at the same price leaves cash = initial_capital * (1 - c)^2 and
\* shares = 0, so the value of the portfolio is initial_capital * (1 - c)^2.
C15_RoundTripCost ==
    ValidParams =>
        \A j \in Rows, k \in Rows :
            RoundTripAtOnePrice(j, k) =>
                /\ portfolio[k].Cash = RoundTripCash
                /\ portfolio[k].Shares = Zero
                /\ portfolio[k].Portfolio_Value = RoundTripCash

\* C15 witness: a round trip at close 2 with a commission > 0, a bar held in
\* between, which is the end of the history.
C15_Witness ==
    /\ ValidParams
    /\ RGt(commission, Zero)
    /\ pc = "done"
    /\ \E j \in Rows, k \in Rows :
          /\ RoundTripAtOnePrice(j, k)
          /\ k > j + 1
          /\ k = Len(portfolio)
          /\ portfolio[k].Price = R(2)

\* C19: the simulator never executes a bar with a commission outside
\* [0, 1): such a rate is rejected before any simulation step.
C19_CommissionInRange ==
    Len(portfolio) > 0 => (RGe(commission, Zero) /\ RLt(commission, R(1)))

\* ------------------------------------------------------ claims on RSI

\* C16: RSI(series, period) is undefined (NaN) at each of the first period
\* indices 0 .. period-1, which are the bars 1 .. rsi_period here.
C16_RSIWarmup ==
    pc = "signals" =>
        \A k \in 1..Len(df) : k <= strategy.rsi_period => IsNaN(RSI(k))

\* The RSI window ending at bar k is full and holds no down move, so that
\* the rolling average loss is 0.
NoLossWindow(k) ==
    k >= strategy.rsi_period /\ LossSum(k, strategy.rsi_period) = 0

\* C17 as stated: whenever the rolling average loss is 0, RSI is exactly
\* 100, also when the average gain is 0 too.
C17_RSISaturates ==
    pc = "signals" =>
        \A k \in 1..Len(df) : NoLossWindow(k) => RSI(k) = R(100)

\* C17 amended: with an average loss of 0, RSI is exactly 100 when the
\* average gain is positive; when the average gain is 0 too (a flat window)
\* RSI is undefined and the bar's signal is hold.
C17_RSISaturatesOnGain ==
    pc = "signals" =>
        \A k \in 1..Len(df) :
            NoLossWindow(k) =>
                IF GainSum(k, strategy.rsi_period) > 0
                THEN RSI(k) = R(100)
                ELSE IsNaN(RSI(k)) /\ signals[k] = 0

\* C17 witness: a window of two bars that only rises, and a later flat one
\* at which both moving averages are defined.
C17_Witness ==
    /\ pc = "signals"
    /\ strategy.rsi_period = 2
    /\ \E k \in 1..Len(df), m \in 1..Len(df) :
          /\ k < m
          /\ NoLossWindow(k)
          /\ GainSum(k, 2) > 0
          /\ NoLossWindow(m)
          /\ GainSum(m, 2) = 0
          /\ MAsDefined(m)

\* ------------------------------------- claims on all three strategies

\* C11: for every strategy class and every bar sequence, generate_signals
\* returns one signal per bar, in the order of the bars (the Date column is
\* copied from the data, so row k of the result is bar k), every signal is
\* -1, 0 or 1, and the signal of the first bar is 0.
C11_SignalSeriesShape ==
    pc = "signals" =>
        /\ DOMAIN signals = DOMAIN df
        /\ \A k \in DOMAIN signals : signals[k] \in Signals
        /\ Len(df) >= 1 => signals[1] = 0

\* C11 witness: a full-length sequence on which a strategy answered a buy
\* and a sell.
C11_Witness ==
    /\ pc = "signals"
    /\ Len(df) = MaxLen
    /\ \E j \in DOMAIN signals, k \in DOMAIN signals :
          signals[j] = 1 /\ signals[k] = -1

\* An indicator the strategy requires is undefined at bar k, as the
\* indicators are specified: a moving average or volume average before its
\* window is full, RSI at the first rsi_period bars.
RequiredIndicatorUndefined(k) ==
    \/ strategy.class \in {"Strategy1", "Strategy2"} /\ ~MAsDefined(k)
    \/ strategy.class = "Strategy2" /\ k <= strategy.rsi_period
    \/ strategy.class = "Strategy3" /\ ~VolumeMADefined(k)

\* C12: for every strategy class, a bar at which a required indicator is
\* undefined gets signal 0, never a buy or a sell.
C12_UndefinedIsHold ==
    pc = "signals" =>
        \A k \in 1..Len(df) : RequiredIndicatorUndefined(k) => signals[k] = 0

\* ------------------------------------------------ claims on two calls

\* The bars and the signal series a returned history was computed from.
InputsOf(history) ==
    [k \in DOMAIN history |->
        <<history[k].Date, history[k].Price, history[k].Signal>>]

\* C13: two calls of the simulator on identical bars and signals, with the
\* engine's initial_capital and commission, return identical histories: the
\* same cash, shares, value and daily return at every bar.
C13_Deterministic ==
    \A a \in DOMAIN returned, b \in DOMAIN returned :
        InputsOf(returned[a]) = InputsOf(returned[b]) =>
            returned[a] = returned[b]

\* C13 witness: two calls on the same frame of RerunBars rows, LONG at the
\* end of the frame, at a commission > 0.
C13_Witness ==
    /\ Len(returned) = 2
    /\ RGt(commission, Zero)
    /\ Len(returned[1]) = RerunBars
    /\ InputsOf(returned[1]) = InputsOf(returned[2])
    /\ RGt(returned[1][RerunBars].Shares, Zero)

\* ------------------------------------------- claims on the whole run

ConstantClose == \A j \in 1..Len(df), k \in 1..Len(df) : df[j].Close = df[k].Close

\* C14: on bars whose close is constant each of the three strategy classes
\* answers only hold signals, the simulator makes no trade, and the metrics
\* report num_trades = 0, total_return = 0 and max_drawdown = 0.
C14_ConstantCloseNoTrade ==
    ConstantClose =>
        /\ pc \in {"signals", "loop", "done", "reported"} =>
               \A k \in 1..Len(df) : signals[k] = 0
        /\ pc \in {"done", "reported"} => positions = <<>> /\ trades = <<>>
        /\ pc = "reported" =>
               /\ metrics.num_trades = 0
               /\ metrics.total_return = Zero
               /\ metrics.max_drawdown = Zero

\* C14 witness: a reported run of the MACD + volume strategy on MaxLen bars
\* of constant close whose volume rises, at a commission > 0.
C14_Witness ==
    /\ pc = "reported"
    /\ ConstantClose
    /\ Len(df) = MaxLen
    /\ strategy.class = "Strategy3"
    /\ RGt(commission, Zero)
    /\ \E k \in 2..Len(df) : df[k].Volume > df[k - 1].Volume

\* ------------------------------------------- claims on the validation

\* C18: run() hands a frame to the strategy only if it is not empty, has
\* every required column and no missing value in them; any other frame
\* fails the validation and the strategy is not run on it.
C18_InvalidFrameRejected ==
    pc \in {"data", "signals"} =>
        /\ data.rows # <<>>
        /\ RequiredColumns \subseteq data.columns
        /\ ~HasNull(data)

\* ------------------------------------- claims on the portfolio backtest

\* A symbol that was run does not trade at the day.
NoCommonDateAt(day) ==
    \E i \in DOMAIN per_symbol_runs : day \notin RunDates(per_symbol_runs[i])

\* No day is a trading day of every symbol that was run.
NoCommonDate ==
    \A day \in Dates :
        \E i \in DOMAIN per_symbol_runs : day \notin RunDates(per_symbol_runs[i])

\* C20: a combination whose per-symbol calendars share no day ends in an
\* error and returns nothing: no portfolio, no metrics, no per-symbol table.
C20_NoCommonDateFails ==
    (pc # "app" /\ NoCommonDate) => (pc = "error" /\ result = <<>>)

\* C20 witness: two symbols were run, one of them with several trading
\* days, no day is common, and the call failed.
C20_Witness ==
    /\ pc = "error"
    /\ Len(per_symbol_runs) = 2
    /\ NoCommonDate
    /\ Len(per_symbol_runs[1].portfolio) > 1

\* The rows of the combined portfolio that was returned.
CombinedRows == DOMAIN result.portfolio

\* The sum of the per-symbol values at a day of every symbol.
SumOfRuns(day) ==
    IF Len(per_symbol_runs) = 1 THEN ValueOn(per_symbol_runs[1], day)
    ELSE RAdd(ValueOn(per_symbol_runs[1], day),
              ValueOn(per_symbol_runs[2], day))

\* C21: the combined portfolio has exactly one row per day that is a
\* trading day of every symbol, in increasing order of the days; its value
\* at the day is the sum of the per-symbol values at that day; and every
\* symbol was run with initial_capital / number of symbols.
C21_CombinedPortfolio ==
    pc = "combined" =>
        /\ \A day \in Dates :
               Cardinality({k \in CombinedRows : result.portfolio[k].Date = day})
                   = IF ~NoCommonDateAt(day) THEN 1 ELSE 0
        /\ \A k \in CombinedRows :
               /\ k > 1 => result.portfolio[k - 1].Date < result.portfolio[k].Date
               /\ result.portfolio[k].Portfolio_Value
                      = SumOfRuns(result.portfolio[k].Date)
        /\ RMul(PerCapital, R(Len(symbols))) = initial_capital

\* C21 witness: two symbols, one with a trading day the other lacks, two
\* common days, and different values at them.
C21_Witness ==
    /\ pc = "combined"
    /\ Len(per_symbol_runs) = 2
    /\ RunDates(per_symbol_runs[1]) # RunDates(per_symbol_runs[2])
    /\ Len(result.portfolio) = 2
    /\ result.portfolio[1].Portfolio_Value # result.portfolio[2].Portfolio_Value

\* ------------------------------------------------ claims on the metrics

\* The daily returns the engine's metrics are computed from, and the
\* value histories of the engine's run and of the combination.
ObservedReturns ==
    SelectSeq([k \in DOMAIN portfolio |-> portfolio[k].Returns],
              LAMBDA x : ~IsNaN(x))

RunValues == [k \in DOMAIN portfolio |-> portfolio[k].Portfolio_Value]

CombinedValues ==
    [k \in DOMAIN result.portfolio |-> result.portfolio[k].Portfolio_Value]

\* C22: the volatility of the engine's metrics is 0 when the daily-return
\* series has fewer than 2 observations, else the sample standard deviation
\* of the daily returns times sqrt(252).
C22_VolatilityOfShortHistory ==
    pc \in {"reported", "combined"} =>
        metrics.volatility =
            IF Len(ObservedReturns) < 2 THEN SqrtOf(Zero)
            ELSE SqrtOf(RMul(R(252), SampleVariance(ObservedReturns)))

\* The running maximum of the first k values, and the drawdown at k.
RunningMax(values, k) ==
    CHOOSE m \in {values[j] : j \in 1..k} : \A j \in 1..k : RLe(values[j], m)

DrawdownAt(values, k) ==
    RDiv(RSub(values[k], RunningMax(values, k)), RunningMax(values, k))

\* max_drawdown is the least drawdown of the history, is <= 0, and is 0
\* exactly when no value is below the running maximum.
MaxDrawdownOf(values, max_drawdown) ==
    /\ \E k \in DOMAIN values : max_drawdown = DrawdownAt(values, k)
    /\ \A k \in DOMAIN values : RLe(max_drawdown, DrawdownAt(values, k))
    /\ RLe(max_drawdown, Zero)
    /\ max_drawdown = Zero <=>
           \A k \in DOMAIN values : RGe(values[k], RunningMax(values, k))

\* C23: for every completed value history (the engine's, and the
\* combination's), max_drawdown = min over i of
\* (value[i] - max(value[0..i])) / max(value[0..i]); it is <= 0, and 0
\* exactly when the values never fall below their running maximum.
C23_MaxDrawdown ==
    /\ pc \in {"reported", "combined"} =>
           MaxDrawdownOf(RunValues, metrics.max_drawdown)
    /\ pc = "combined" =>
           MaxDrawdownOf(CombinedValues, result.metrics.max_drawdown)

\* C23 witness: a history that falls below the capital and rises again,
\* reported by the engine and by the combination.
C23_Witness ==
    /\ pc = "combined"
    /\ \E j \in DOMAIN portfolio, k \in DOMAIN portfolio :
          /\ j < k
          /\ RLt(portfolio[j].Portfolio_Value, initial_capital)
          /\ RGt(portfolio[k].Portfolio_Value, portfolio[j].Portfolio_Value)
    /\ RLt(result.metrics.max_drawdown, Zero)

\* sharpe_ratio of a metrics dict is annual_return / volatility when the
\* volatility is > 0, a quotient whose divisor is then not 0, and 0 when
\* the volatility is 0 or not a number.
SharpeOf(m) ==
    IF RGt(m.volatility.sqrt_of, Zero)
    THEN m.sharpe_ratio = [num |-> m.annual_return, den |-> m.volatility]
    ELSE m.sharpe_ratio = SharpeZero

\* C24: in the engine's metrics and in the combination's, sharpe_ratio is
\* annual_return / volatility when volatility > 0 and 0 otherwise; the
\* division is never made with a volatility of 0.
C24_SharpeRatio ==
    /\ pc \in {"reported", "combined"} =>
           /\ SharpeOf(metrics)
           /\ ~REq(metrics.sharpe_ratio.den.sqrt_of, Zero)
    /\ pc = "combined" =>
           /\ SharpeOf(result.metrics)
           /\ ~REq(result.metrics.sharpe_ratio.den.sqrt_of, Zero)

\* C24 witness: a combination whose volatility is > 0 and whose annual
\* return is not 0.
C24_Witness ==
    /\ pc = "combined"
    /\ RGt(result.metrics.volatility.sqrt_of, Zero)
    /\ result.metrics.sharpe_ratio.num.growth # R(1)
    /\ result.metrics.sharpe_ratio.num.days > 0

\* C29: _calc_metrics_like_engine and _calculate_metrics answer the same
\* final_value, total_return, annual_return, volatility, max_drawdown and
\* sharpe_ratio on the same history and capital, one-bar histories
\* included.
C29_MetricsAgree ==
    pc = "combined" =>
        /\ result.metrics.final_value = metrics.final_value
        /\ result.metrics.total_return = metrics.total_return
        /\ result.metrics.annual_return = metrics.annual_return
        /\ result.metrics.volatility = metrics.volatility
        /\ result.metrics.max_drawdown = metrics.max_drawdown
        /\ result.metrics.sharpe_ratio = metrics.sharpe_ratio

\* ------------------------------------------------- claims on the trade log

\* C25: when a call of _execute_backtest returns, the trade log of the
\* engine and the num_trades computed from it are those of that call alone:
\* the log is the list of the transitions the call made, and a call that
\* made none leaves no trades and num_trades = 0, whatever an earlier call
\* on the same engine did.
C25_TradesOfThisRun ==
    pc = "done" =>
        /\ trades = positions
        /\ NumTrades = Len(positions)

\* The number of entries of the log of the call in progress with this Type.
CountType(type) ==
    Cardinality({j \in DOMAIN positions : positions[j].Type = type})

\* C26: with initial_capital > 0, commission in [0,1) and positive prices,
\* the log of a call of _execute_backtest reads BUY, SELL, BUY, ... from its
\* first entry on; so at every point #BUY - #SELL is 0 or 1, and it is 1
\* exactly when shares are held, the end of the call included (an open
\* position is not sold at the last bar).
C26_TradeLogAlternates ==
    ValidParams =>
        /\ \A j \in DOMAIN positions :
              positions[j].Type = IF j % 2 = 1 THEN "BUY" ELSE "SELL"
        /\ CountType("BUY") - CountType("SELL") \in {0, 1}
        /\ CountType("BUY") - CountType("SELL") = 1 <=> RGt(shares, Zero)

\* C26 witness: a call that bought, sold and bought again, and returned with
\* the position open.
C26_Witness ==
    /\ ValidParams
    /\ pc = "done"
    /\ Len(positions) = 3
    /\ RGt(shares, Zero)

\* ------------------------------------------- claims on the crossover rules

\* Both moving averages of Variants A and B are defined at position k.
BothDefined(k) == ~IsNaN(MA_Short(k)) /\ ~IsNaN(MA_Long(k))

\* The first position at which both are defined, if there is one.
FirstDefined ==
    {k \in DOMAIN signals : BothDefined(k) /\ \A j \in 1..(k - 1) : ~BothDefined(j)}

Max(a, b) == IF a > b THEN a ELSE b

\* C27: in Strategy1 and Strategy2 the first index at which both moving
\* averages are defined is i = max(short_window, long_window) - 1, and no
\* crossover is detected there or before: Strategy1's signal is 0 up to
\* that index, Strategy2's is never 1 up to it and is -1 there only
\* through an overbought RSI.  This holds also when the short average is
\* already above or below the long one at that index.
C27_NoCrossAtWarmupEnd ==
    (pc = "signals" /\ strategy.class \in {"Strategy1", "Strategy2"}) =>
        \A k \in FirstDefined :
            /\ k = Max(strategy.short_window, strategy.long_window)
            /\ strategy.class = "Strategy1" =>
                  \A j \in 1..k : signals[j] = 0
            /\ strategy.class = "Strategy2" =>
                  /\ \A j \in 1..k : signals[j] # 1
                  /\ signals[k] = -1 => RGt(RSI(k), strategy.rsi_overbought)

\* C27 witness: a series already trending upwards when the warm-up ends (the
\* short average above the long one at the first index where both are
\* defined), with a bar after it.
C27_Witness ==
    /\ pc = "signals"
    /\ strategy.class = "Strategy1"
    /\ \E k \in FirstDefined :
          /\ k > 1
          /\ k < Len(signals)
          /\ RGt(MA_Short(k), MA_Long(k))
          /\ signals[k] = 0

\* Strategy3's buy condition at position k, on the columns m of calculate_macd
\* (strategy_3.py:165-169).
BuyHolds3(k, m) ==
    /\ RLe(m[1][k - 1], m[2][k - 1])
    /\ RGt(m[1][k], m[2][k])
    /\ RGt(Volume[k], RMul(Volume_MA(k), strategy.volume_threshold))

\* Strategy3's sell condition at position k (strategy_3.py:172-176).
SellHolds3(k, m) ==
    \/ RGe(m[1][k - 1], m[2][k - 1]) /\ RLt(m[1][k], m[2][k])
    \/ RLt(m[3][k], Zero)

\* C28: in Strategy3 the buy and the sell condition never hold on the same
\* bar, and at every index i >= 1 at which the volume MA is defined the
\* signal is -1 if and only if Histogram[i] < 0: a golden cross has
\* Histogram > 0 and a death cross has Histogram < 0.
C28_BuySellExclusive ==
    (pc = "signals" /\ strategy.class = "Strategy3") =>
        \E m \in {MacdColumns} :
            \A k \in 2..Len(signals) :
                /\ ~(BuyHolds3(k, m) /\ SellHolds3(k, m))
                /\ RGt(m[1][k], m[2][k]) => RGt(m[3][k], Zero)
                /\ RLt(m[1][k], m[2][k]) => RLt(m[3][k], Zero)
                /\ ~IsNaN(Volume_MA(k)) =>
                      (signals[k] = -1 <=> RLt(m[3][k], Zero))

\* C28 witness: a frame with a bar that buys on a golden cross and a bar that
\* sells on a negative histogram without a death cross.
C28_Witness ==
    /\ pc = "signals"
    /\ strategy.class = "Strategy3"
    /\ \E m \in {MacdColumns} :
          /\ \E k \in 2..Len(signals) : signals[k] = 1 /\ BuyHolds3(k, m)
          /\ \E k \in 2..Len(signals) :
                /\ signals[k] = -1
                /\ RLt(m[1][k - 1], m[2][k - 1])
                /\ ~IsNaN(Volume_MA(k))

\* ------------------------------------------------- claims on the window

\* A worker is running or its callback is still to be run by the UI loop.
RunOutstanding == InFlight # {} \/ after_queue # <<>>

C30_Inv ==
    /\ Cardinality(InFlight) + Len(after_queue) <= 1
    /\ RunOutstanding => run_button = "disabled" /\ save_button = "disabled"
    /\ save_button = "normal" => results # <<>> /\ status_var = "done"

C30_Step ==
    /\ Len(threads') > Len(threads) =>
          run_button = "normal" /\ run_button' = "disabled"
    /\ (run_button = "disabled" /\ run_button' = "normal") =>
          /\ InFlight = {}
          /\ after_queue # <<>>
          /\ after_queue' = Tail(after_queue)
    /\ (save_button = "disabled" /\ save_button' = "normal") =>
          /\ after_queue # <<>>
          /\ Head(after_queue) = "update_results"

\* C30: in the window at most one worker is running a backtest at any time.
\* start_backtest starts a worker only with the run button enabled and
\* leaves it disabled; the button is enabled again only by update_results or
\* show_error, run by the UI loop for a callback a worker scheduled when
\* its backtest had ended; while a run is outstanding the save button is
\* disabled, and only update_results, scheduled after a successful run,
\* enables it.
C30_OneWorkerInFlight == []C30_Inv /\ [][C30_Step]_vars

\* C30 witness: a second run is in flight after a first one succeeded, and
\* both buttons are disabled.
C30_Witness ==
    /\ InFlight # {}
    /\ results # <<>>
    /\ run_button = "disabled"
    /\ save_button = "disabled"

====
